---- MODULE Spec2Model ----
(***************************************************************************)
(* A model of src/main.py: the monthly playlist creator.  Strings are      *)
(* sequences of one-character strings; the Unicode em dash U+2014 is the   *)
(* character "emdash".                                                     *)
(***************************************************************************)
EXTENDS Integers, Sequences, FiniteSets, TLC

VARIABLES
    pc,              \* where the run is
    config,          \* which of the three required settings are present
    posts,           \* titles of the posts the primary feed returned
    songs,           \* result of parse_song_titles
    calls,           \* every network call issued so far, in order
    idx,             \* number of songs the search loop has handled
    track_ids,       \* local track_ids of create_spotify_playlist
    not_found,       \* local not_found of create_spotify_playlist
    batch_i,         \* the i of "for i in range(0, len(track_ids), 100)"
    playlists,       \* number of playlists the service holds for this run
    playlist_tracks, \* the tracks of the created playlist, in order
    cover_set,       \* whether the playlist has the uploaded cover
    source,          \* <<width, height>> of the image behind the cover post
    image,           \* <<width, height>> of the PIL image, <<>> before it is opened
    encodes          \* every image.save so far: quality, dimensions, bytes written

vars == <<pc, config, posts, songs, calls, idx, track_ids, not_found, batch_i,
          playlists, playlist_tracks, cover_set, source, image, encodes>>

parseVars == <<calls, idx, track_ids, not_found, batch_i, playlists,
               playlist_tracks, cover_set, source, image, encodes>>

----------------------------------------------------------------------------
(* Bounds of the model *)

MaxTitleLen == 6

\* posts the primary feed returns in a modelled run
MaxPosts == 3

\* catalog identifiers a search may return in a modelled run
MaxTrackId == 2

\* found tracks handed to the insertion loop
MaxTracks == 250

\* encoded sizes range over the ceiling in bytes plus or minus this many bytes
MaxSizeDelta == 1

\* source image edges: max_size - NearDim..max_size + NearDim, and DimStep,
\* 2 * DimStep, ..., MaxDimK * DimStep
NearDim == 3
DimStep == 500
MaxDimK == 8

Alphabet == {"A", " ", "-", "emdash", "[", "("}

Titles == UNION {[1..n -> Alphabet] : n \in 0..MaxTitleLen}

----------------------------------------------------------------------------
(* Python string operations used by parse_song_titles *)

Sep == <<" ", "-", " ">>

\* s[i:i+len(sub)] == sub, i a 1-based index
MatchAt(s, sub, i) ==
    /\ i + Len(sub) - 1 <= Len(s)
    /\ \A k \in 1..Len(sub) : s[i + k - 1] = sub[k]

\* str.find, 1-based; 0 when sub does not occur (scans left to right)
RECURSIVE FindFrom(_, _, _)
FindFrom(s, sub, i) ==
    IF i + Len(sub) - 1 > Len(s) THEN 0
    ELSE IF MatchAt(s, sub, i) THEN i
    ELSE FindFrom(s, sub, i + 1)

Find(s, sub) == FindFrom(s, sub, 1)

\* sub in s
Contains(s, sub) == Find(s, sub) # 0

\* mutant of SplitOnce: s.rsplit(sub, 1), the split at the last occurrence
SplitOnceLast(s, sub) ==
    LET i == CHOOSE j \in 1..Len(s) :
                 /\ MatchAt(s, sub, j)
                 /\ \A k \in (j + 1)..Len(s) : ~MatchAt(s, sub, k)
    IN  <<SubSeq(s, 1, i - 1), SubSeq(s, i + Len(sub), Len(s))>>

\* s.split(sub, 1) for a string that contains sub: <<before, after>>
SplitOnce(s, sub) ==
    LET i == Find(s, sub)
    IN  <<SubSeq(s, 1, i - 1), SubSeq(s, i + Len(sub), Len(s))>>

\* s.split(ch, 1)[0]: everything before the first ch, s itself without ch
SplitFirst(s, ch) ==
    LET i == Find(s, <<ch>>)
    IN  IF i = 0 THEN s ELSE SubSeq(s, 1, i - 1)

IsSpace(c) == c = " "

RECURSIVE LStrip(_)
LStrip(s) ==
    IF s # <<>> /\ IsSpace(Head(s)) THEN LStrip(Tail(s)) ELSE s

RECURSIVE RStrip(_)
RStrip(s) ==
    IF s # <<>> /\ IsSpace(s[Len(s)]) THEN RStrip(SubSeq(s, 1, Len(s) - 1)) ELSE s

\* str.strip()
Strip(s) == RStrip(LStrip(s))

\* the condition of line 42
HasSeparator(title) == Contains(title, Sep)

\* mutant of SongTitle: the "(" cut is forgotten
SongTitleSquareOnly(rest) == Strip(SplitFirst(rest, "["))

\* line 45
SongTitle(rest) == Strip(SplitFirst(SplitFirst(rest, "["), "("))

\* line 49: the f-string uses the local artist, which is not stripped
Query(artist, song_title) == artist \o <<" ">> \o song_title

\* lines 43-50: the dictionary appended for one title that has the separator
ParseTitle(title) ==
    LET parts      == SplitOnce(title, Sep)
        artist     == parts[1]
        rest       == parts[2]
        song_title == SongTitle(rest)
    IN  [artist |-> Strip(artist),
         title  |-> song_title,
         query  |-> Query(artist, song_title)]

\* lines 36-52
RECURSIVE parse_song_titles(_)
parse_song_titles(ps) ==
    IF ps = <<>> THEN <<>>
    ELSE (IF HasSeparator(Head(ps)) THEN <<ParseTitle(Head(ps))>> ELSE <<>>)
         \o parse_song_titles(Tail(ps))

----------------------------------------------------------------------------

(* Program constants *)

\* line 103: the step of the range and the width of the slice
BatchSize == 100

\* line 136
max_size == 1500

\* lines 201 and 208: the ceiling in KB; len / 1024 > 200 iff len > 200 * 1024
CeilingKB == 200

CeilingBytes == CeilingKB * 1024

\* lines 193, 204, 214
Quality85 == 85
Quality70 == 70

----------------------------------------------------------------------------
(* What the outside world may answer *)

SampleTitles ==
    { <<"A", " ", "-", " ", "A", " ", "[">>,    \* "A - A ["
      <<"A", "A">>,                             \* no separator
      <<" ", "A", " ", "-", " ", "(">> }        \* " A - ("

PostLists == UNION {[1..n -> SampleTitles] : n \in 0..MaxPosts}

\* a search answers no item (0), or its top item's id
NoItem == 0
SearchAnswers == {NoItem} \cup (1..MaxTrackId)

Sizes == {CeilingBytes + d : d \in (0 - MaxSizeDelta)..MaxSizeDelta}

Dims ==
((max_size - NearDim)..(max_size + NearDim)) \cup {k * DimStep : k \in 1..MaxDimK}

\* a network call: what was asked and what came back (a status, a search answer,
\* or Raised when the call threw)
Call(op, arg, reply) == [op |-> op, arg |-> arg, reply |-> reply]

Raised == 0 - 1

\* line 29
StatusOk == 200

Max2(a, b) == IF a >= b THEN a ELSE b
Min2(a, b) == IF a <= b THEN a ELSE b

----------------------------------------------------------------------------
(* The run: __main__, create_monthly_playlist and what they call *)

\* mutant of ConfigComplete: any() for all()
ConfigAny(c) == c.id \/ c.secret \/ c.redirect

\* line 266: all([...]) of the three settings
ConfigComplete(c) == c.id /\ c.secret /\ c.redirect

\* lines 265-269
Main ==
    /\ pc = "start"
    /\ pc' = IF ConfigComplete(config) THEN "fetch_posts" ELSE "aborted"
    /\ UNCHANGED <<config, posts, songs>>
    /\ UNCHANGED parseVars

\* lines 22-34: what get_reddit_posts returns for a response; status 200 carries
\* the children, any other status gives the empty list
get_reddit_posts(status, children) == IF status = StatusOk THEN children ELSE <<>>

\* lines 240-243 with get_reddit_posts('listentothis'); requests.get may raise
FetchPosts ==
    /\ pc = "fetch_posts"
    /\ \E raised \in BOOLEAN, status \in {StatusOk, 429}, children \in PostLists :
         IF raised
         THEN /\ calls' = Append(calls, Call("fetchTopPosts", "listentothis", Raised))
              /\ pc' = "crashed"
              /\ posts' = posts
         ELSE /\ calls' = Append(calls, Call("fetchTopPosts", "listentothis", status))
              /\ posts' = get_reddit_posts(status, children)
              /\ pc' = IF posts' = <<>> THEN "aborted" ELSE "parse"
    /\ UNCHANGED <<config, songs, idx, track_ids, not_found, batch_i, playlists,
                   playlist_tracks, cover_set, source, image, encodes>>

\* lines 245-251 of create_monthly_playlist
ParseTitles ==
    /\ pc = "parse"
    /\ songs' = parse_song_titles(posts)
    /\ pc' = IF songs' = <<>> THEN "aborted" ELSE "create_playlist"
    /\ UNCHANGED <<config, posts>>
    /\ UNCHANGED parseVars

\* mutant of CreatePlaylist: the creation is issued a second time
CreatePlaylistTwice ==
    /\ pc = "create_playlist"
    /\ calls' = calls \o <<Call("currentUser", <<>>, StatusOk),
                            Call("createPlaylist", "public", StatusOk),
                            Call("createPlaylist", "public", StatusOk)>>
    /\ playlists' = playlists + 2
    /\ pc' = "search"
    /\ idx' = 0
    /\ track_ids' = <<>>
    /\ not_found' = <<>>
    /\ UNCHANGED <<config, posts, songs, batch_i, playlist_tracks, cover_set,
                   source, image, encodes>>

\* lines 65-85: current_user, user_playlist_create, the two empty lists
CreatePlaylist ==
    /\ pc = "create_playlist"
    /\ \E outcome \in {"ok", "user_raises", "create_raises"} :
         /\ calls' = IF outcome = "user_raises"
                     THEN Append(calls, Call("currentUser", <<>>, Raised))
                     ELSE calls \o <<Call("currentUser", <<>>, StatusOk),
                                     Call("createPlaylist", "public",
                                          IF outcome = "ok" THEN StatusOk ELSE Raised)>>
         /\ playlists' = IF outcome = "ok" THEN playlists + 1 ELSE playlists
         /\ pc' = IF outcome = "ok" THEN "search" ELSE "crashed"
    /\ idx' = 0
    /\ track_ids' = <<>>
    /\ not_found' = <<>>
    /\ UNCHANGED <<config, posts, songs, batch_i, playlist_tracks, cover_set,
                   source, image, encodes>>

\* line 90: the search call for one song
SearchCall(song, reply) == Call("search", [q |-> song.query, limit |-> 1], reply)

\* mutant of AfterSong: the loop is left after its first iteration
AfterSongBreak(k) == "add_tracks"

\* line 87 onwards: the loop leaves for line 101 after the last song
AfterSong(k) == IF k = Len(songs) THEN "add_tracks" ELSE "search"

\* lines 87-99: one iteration of the loop over songs
SearchSong ==
    /\ pc = "search"
    /\ idx < Len(songs)
    /\ LET song == songs[idx + 1]
       IN  \E raised \in BOOLEAN, answer \in SearchAnswers :
                IF raised
                THEN /\ calls' = Append(calls, SearchCall(song, Raised))
                     /\ pc' = "crashed"
                     /\ UNCHANGED <<idx, track_ids, not_found>>
                ELSE /\ calls' = Append(calls, SearchCall(song, answer))
                     /\ idx' = idx + 1
                     /\ track_ids' = IF answer # NoItem
                                     THEN Append(track_ids, answer) ELSE track_ids
                     /\ not_found' = IF answer # NoItem
                                     THEN not_found ELSE Append(not_found, song)
                     /\ pc' = AfterSong(idx')
    /\ batch_i' = 0
    /\ UNCHANGED <<config, posts, songs, playlists, playlist_tracks, cover_set,
                   source, image, encodes>>

\* mutant of Batch: the slice is one too wide
BatchOneTooWide(ids, i) == SubSeq(ids, i + 1, Min2(i + BatchSize + 1, Len(ids)))

\* line 104: track_ids[i:i+100], i counted from 0
Batch(ids, i) == SubSeq(ids, i + 1, Min2(i + BatchSize, Len(ids)))

\* line 103: the next i of range(0, len(track_ids), 100)
NextBatchStart(i) == i + BatchSize

\* lines 102-106: one iteration of the loop over batches
AddTracksBatch ==
    /\ pc = "add_tracks"
    /\ batch_i < Len(track_ids)
    /\ \E raised \in BOOLEAN :
         IF raised
         THEN /\ calls' = Append(calls, Call("addTracks", Batch(track_ids, batch_i), Raised))
              /\ pc' = "crashed"
              /\ UNCHANGED <<batch_i, playlist_tracks>>
         ELSE /\ calls' = Append(calls, Call("addTracks", Batch(track_ids, batch_i), StatusOk))
              /\ playlist_tracks' = playlist_tracks \o Batch(track_ids, batch_i)
              /\ batch_i' = NextBatchStart(batch_i)
              /\ pc' = pc
    /\ UNCHANGED <<config, posts, songs, idx, track_ids, not_found, playlists,
                   cover_set, source, image, encodes>>

\* lines 108-113: the loop is over; report the misses and return the playlist
FinishPlaylist ==
    /\ pc = "add_tracks"
    /\ batch_i >= Len(track_ids)
    /\ pc' = "cover_feed"
    /\ UNCHANGED <<config, posts, songs, calls, idx, track_ids, not_found, batch_i,
                   playlists, playlist_tracks, cover_set, source, image, encodes>>

----------------------------------------------------------------------------
(* The cover: get_and_modify_cover_image and set_playlist_cover *)

\* lines 257, 117-123: get_reddit_posts('earthporn', limit=1); without a post
\* the function returns None and line 259 skips the upload
GetCoverPost ==
    /\ pc = "cover_feed"
    /\ \E raised \in BOOLEAN, status \in {StatusOk, 429}, n \in 0..1 :
         /\ calls' = Append(calls, Call("fetchTopPosts", "earthporn",
                                        IF raised THEN Raised ELSE status))
         /\ pc' = IF raised THEN "crashed"
                  ELSE IF get_reddit_posts(status, [k \in 1..n |-> "post"]) = <<>>
                       THEN "complete"
                  ELSE "download"
    /\ UNCHANGED <<config, posts, songs, idx, track_ids, not_found, batch_i,
                   playlists, playlist_tracks, cover_set, source, image, encodes>>

\* lines 126-129: any status but 200 returns None
DownloadImage ==
    /\ pc = "download"
    /\ \E raised \in BOOLEAN, status \in {StatusOk, 404} :
         /\ calls' = Append(calls, Call("download", "url",
                                        IF raised THEN Raised ELSE status))
         /\ pc' = IF raised THEN "crashed"
                  ELSE IF status # StatusOk THEN "complete"
                  ELSE "open"
    /\ UNCHANGED <<config, posts, songs, idx, track_ids, not_found, batch_i,
                   playlists, playlist_tracks, cover_set, source, image, encodes>>

RECURSIVE GCD(_, _)
GCD(a, b) == IF b = 0 THEN a ELSE GCD(b, a % b)

RECURSIVE IsPowerOfTwo(_)
IsPowerOfTwo(n) == n = 1 \/ (n > 1 /\ n % 2 = 0 /\ IsPowerOfTwo(n \div 2))

\* line 138: ratio = max_size / m is a float; it is exact when the reduced
\* denominator is a power of two
RatioExact(m) == IsPowerOfTwo(m \div GCD(m, max_size))

\* line 139: int(e * ratio).  The float product is the exact quotient rounded:
\* it truncates to the floor, except that a product whose exact value is a whole
\* number may come out just below it when the ratio is not exact
ScaledEdge(e, m) ==
    LET q == (e * max_size) \div m
    IN  IF (e * max_size) % m = 0 /\ ~RatioExact(m) THEN {q, q - 1} ELSE {q}

\* line 210: int(e * 0.75); 0.75 is exact and so is the product
ShrunkEdge(e) == (e * 3) \div 4

\* Image.resize refuses an empty size
Resizable(w, h) == w >= 1 /\ h >= 1

\* mutant of NeedsDownscale: the shorter edge is tested
NeedsDownscaleShortEdge(size) == Min2(size[1], size[2]) > max_size

\* line 137
NeedsDownscale(size) == Max2(size[1], size[2]) > max_size

\* lines 132-141: Image.open raises on bytes that are no image; equal edges go
\* through the same float computation and come out equal
OpenImage ==
    /\ pc = "open"
    /\ \E decodes \in BOOLEAN :
         IF ~decodes
         THEN pc' = "crashed" /\ image' = image
         ELSE IF NeedsDownscale(source)
         THEN \E w \in ScaledEdge(source[1], Max2(source[1], source[2])),
                 h \in ScaledEdge(source[2], Max2(source[1], source[2])) :
                   /\ source[1] = source[2] => w = h
                   /\ IF Resizable(w, h)
                      THEN pc' = "encode85" /\ image' = <<w, h>>
                      ELSE pc' = "crashed" /\ image' = source
         ELSE pc' = "encode85" /\ image' = source
    /\ UNCHANGED <<config, posts, songs, calls, idx, track_ids, not_found, batch_i,
                   playlists, playlist_tracks, cover_set, source, encodes>>

\* one image.save(img_byte_arr, format='JPEG', quality=q) that wrote n bytes
Save(q, n) == [quality |-> q, width |-> image'[1], height |-> image'[2], bytes |-> n]

\* mutant of OverCeiling: >= for >
AtOrOverCeiling(n) == n >= CeilingBytes

\* lines 201 and 208: len / 1024 > 200
OverCeiling(n) == n > CeilingBytes

\* lines 143-201: draw the month on the image, save at quality 85
DrawAndEncode ==
    /\ pc = "encode85"
    /\ image' = image
    /\ \E n \in Sizes :
         /\ encodes' = Append(encodes, Save(Quality85, n))
         /\ pc' = IF OverCeiling(n) THEN "encode70" ELSE "upload"
    /\ UNCHANGED <<config, posts, songs, calls, idx, track_ids, not_found, batch_i,
                   playlists, playlist_tracks, cover_set, source>>

\* lines 203-208 (and 217-219 when the second buffer fits)
Reencode ==
    /\ pc = "encode70"
    /\ image' = image
    /\ \E n \in Sizes :
         /\ encodes' = Append(encodes, Save(Quality70, n))
         /\ pc' = IF OverCeiling(n) THEN "shrink" ELSE "upload"
    /\ UNCHANGED <<config, posts, songs, calls, idx, track_ids, not_found, batch_i,
                   playlists, playlist_tracks, cover_set, source>>

\* lines 210-219: shrink by 0.75, save at quality 70, return whatever results
ShrinkAndEncode ==
    /\ pc = "shrink"
    /\ IF Resizable(ShrunkEdge(image[1]), ShrunkEdge(image[2]))
       THEN /\ image' = <<ShrunkEdge(image[1]), ShrunkEdge(image[2])>>
            /\ \E n \in Sizes : encodes' = Append(encodes, Save(Quality70, n))
            /\ pc' = "upload"
       ELSE /\ pc' = "crashed"
            /\ UNCHANGED <<image, encodes>>
    /\ UNCHANGED <<config, posts, songs, calls, idx, track_ids, not_found, batch_i,
                   playlists, playlist_tracks, cover_set, source>>

\* lines 259-263 and 221-233: the upload's exception is caught
SetPlaylistCover ==
    /\ pc = "upload"
    /\ \E raised \in BOOLEAN :
         /\ calls' = Append(calls, Call("setCoverImage", encodes[Len(encodes)].bytes,
                                        IF raised THEN Raised ELSE StatusOk))
         /\ cover_set' = IF raised THEN cover_set ELSE TRUE
    /\ pc' = "complete"
    /\ UNCHANGED <<config, posts, songs, idx, track_ids, not_found, batch_i,
                   playlists, playlist_tracks, source, image, encodes>>

----------------------------------------------------------------------------
(* Specifications *)

Settings == [id : BOOLEAN, secret : BOOLEAN, redirect : BOOLEAN]

AllConfig == [id |-> TRUE, secret |-> TRUE, redirect |-> TRUE]

Landscape == <<3000, 2000>>

\* a whole run, from the process start
Init ==
    /\ pc = "start"
    /\ config \in Settings
    /\ posts = <<>>
    /\ songs = <<>>
    /\ calls = <<>>
    /\ idx = 0
    /\ track_ids = <<>>
    /\ not_found = <<>>
    /\ batch_i = 0
    /\ playlists = 0
    /\ playlist_tracks = <<>>
    /\ cover_set = FALSE
    /\ source = Landscape
    /\ image = <<>>
    /\ encodes = <<>>

Next ==
    \/ Main
    \/ FetchPosts
    \/ ParseTitles
    \/ CreatePlaylist
    \/ SearchSong
    \/ AddTracksBatch
    \/ FinishPlaylist
    \/ GetCoverPost
    \/ DownloadImage
    \/ OpenImage
    \/ DrawAndEncode
    \/ Reencode
    \/ ShrinkAndEncode
    \/ SetPlaylistCover

Spec == Init /\ [][Next]_vars

\* parse_song_titles on one title, every title up to MaxTitleLen characters
InitParse ==
    /\ pc = "parse"
    /\ config = AllConfig
    /\ posts \in {<<t>> : t \in Titles}
    /\ songs = <<>>
    /\ calls = <<Call("fetchTopPosts", "listentothis", StatusOk)>>
    /\ idx = 0
    /\ track_ids = <<>>
    /\ not_found = <<>>
    /\ batch_i = 0
    /\ playlists = 0
    /\ playlist_tracks = <<>>
    /\ cover_set = FALSE
    /\ source = Landscape
    /\ image = <<>>
    /\ encodes = <<>>

NextParse == ParseTitles

SpecParse == InitParse /\ [][NextParse]_vars

OneTitle == <<"A", " ", "-", " ", "A">>

\* the insertion loop of create_spotify_playlist on n found tracks 1, 2, ..., n:
\* the state at line 101 after max(n, 1) posts of the same title, each search
\* but a lone miss answering a new identifier
InitBatch ==
    \E n \in 0..MaxTracks :
        LET m == Max2(n, 1)
        IN  /\ pc = "add_tracks"
            /\ config = AllConfig
            /\ posts = [k \in 1..m |-> OneTitle]
            /\ songs = [k \in 1..m |-> ParseTitle(OneTitle)]
            /\ calls = <<Call("fetchTopPosts", "listentothis", StatusOk),
                         Call("currentUser", <<>>, StatusOk),
                         Call("createPlaylist", "public", StatusOk)>>
                       \o [k \in 1..m |->
                             SearchCall(ParseTitle(OneTitle), IF k <= n THEN k ELSE NoItem)]
            /\ idx = m
            /\ track_ids = [k \in 1..n |-> k]
            /\ not_found = [k \in 1..(m - n) |-> ParseTitle(OneTitle)]
            /\ batch_i = 0
            /\ playlists = 1
            /\ playlist_tracks = <<>>
            /\ cover_set = FALSE
            /\ source = Landscape
            /\ image = <<>>
            /\ encodes = <<>>

NextBatch == AddTracksBatch \/ FinishPlaylist

SpecBatch == InitBatch /\ [][NextBatch]_vars

\* get_and_modify_cover_image on every source size of Dims x Dims, entered after
\* a run that found and inserted one track
InitImage ==
    /\ pc = "cover_feed"
    /\ config = AllConfig
    /\ posts = <<OneTitle>>
    /\ songs = <<ParseTitle(OneTitle)>>
    /\ calls = <<Call("fetchTopPosts", "listentothis", StatusOk),
                 Call("currentUser", <<>>, StatusOk),
                 Call("createPlaylist", "public", StatusOk),
                 SearchCall(ParseTitle(OneTitle), 1),
                 Call("addTracks", <<1>>, StatusOk)>>
    /\ idx = 1
    /\ track_ids = <<1>>
    /\ not_found = <<>>
    /\ batch_i = BatchSize
    /\ playlists = 1
    /\ playlist_tracks = <<1>>
    /\ cover_set = FALSE
    /\ source \in Dims \X Dims
    /\ image = <<>>
    /\ encodes = <<>>

NextImage ==
    \/ GetCoverPost
    \/ DownloadImage
    \/ OpenImage
    \/ DrawAndEncode
    \/ Reencode
    \/ ShrinkAndEncode

SpecImage == InitImage /\ [][NextImage]_vars

----------------------------------------------------------------------------
(* Declarative vocabulary for the parser claims *)

Occurrences(t, sub) ==
    {i \in 1..(Len(t) - Len(sub) + 1) : SubSeq(t, i, i + Len(sub) - 1) = sub}

Least(S) == CHOOSE x \in S : \A y \in S : x <= y

LeftOf(t, sub) == SubSeq(t, 1, Least(Occurrences(t, sub)) - 1)

RightOf(t, sub) == SubSeq(t, Least(Occurrences(t, sub)) + Len(sub), Len(t))

Trimmed(x) == x = <<>> \/ (x[1] # " " /\ x[Len(x)] # " ")

\* x is s without its leading and trailing blanks
IsStripOf(x, s) ==
    \E a \in 1..(Len(s) + 1), b \in 0..Len(s) :
        /\ x = SubSeq(s, a, b)
        /\ \A k \in 1..Len(s) : (k < a \/ k > b) => s[k] = " "
        /\ Trimmed(x)

Brackets == {"[", "("}

BracketFree(x) == \A k \in 1..Len(x) : x[k] \notin Brackets

\* r cut at its first "[" or "(", whichever comes first
BracketCut(r) ==
    LET B == {i \in 1..Len(r) : r[i] \in Brackets}
    IN  IF B = {} THEN r ELSE SubSeq(r, 1, Least(B) - 1)

Parsed == pc \notin {"start", "fetch_posts", "parse"}

\* the posts that contain the separator sub, in feed order
PostsWith(sub) == SelectSeq(posts, LAMBDA t : Occurrences(t, sub) # {})

\* the separator list of the specification, most specific first
DoubleHyphen == <<" ", "-", "-", " ">>
EmDash == <<" ", "emdash", " ">>
Candidates == <<DoubleHyphen, EmDash, Sep>>

HasCandidate(t) == \E c \in 1..Len(Candidates) : Occurrences(t, Candidates[c]) # {}

\* the first candidate of the list that occurs in t
Winner(t) ==
    Candidates[Least({c \in 1..Len(Candidates) : Occurrences(t, Candidates[c]) # {}})]

\* C1 as stated: every title holding any of the separators " -- ", " <em dash> ",
\* " - " yields exactly one song, split at the first occurrence of the first
\* candidate that occurs.
C1_AnySeparatorYieldsSong ==
    Parsed =>
        LET ps == SelectSeq(posts, HasCandidate)
        IN  /\ Len(songs) = Len(ps)
            /\ \A k \in 1..Len(ps) :
                 /\ IsStripOf(songs[k].artist, LeftOf(ps[k], Winner(ps[k])))
                 /\ IsStripOf(songs[k].title, BracketCut(RightOf(ps[k], Winner(ps[k]))))

\* C1 amended: " - " is the only separator.  The songs are, in feed order, one per
\* title that contains " - "; the artist is the trimmed text before the first " - "
\* and the title comes from the text after it.  Titles without " - " (also those
\* with " -- " or an em dash) yield nothing.
C1_SingleHyphenSplitsAtFirst ==
    Parsed =>
        LET ps == PostsWith(Sep)
        IN  /\ Len(songs) = Len(ps)
            /\ \A k \in 1..Len(ps) :
                 /\ IsStripOf(songs[k].artist, LeftOf(ps[k], Sep))
                 /\ IsStripOf(songs[k].title, BracketCut(RightOf(ps[k], Sep)))

\* a title with two occurrences of " - " was parsed into one song, and a title
\* with only an em dash separator was dropped
C1_Witness ==
    /\ Parsed
    /\ Len(posts) = 1
    /\ Cardinality(Occurrences(posts[1], Sep)) >= 2
    /\ Len(songs) = 1
    /\ songs[1].title # <<>>

\* C2: the title of every song is the text after the first separator, cut at the
\* first "[" or "(" (whichever comes first, uncut when neither occurs) and trimmed;
\* it never contains "[" or "(".
C2_TitleCutAtFirstBracketAndTrimmed ==
    Parsed =>
        LET ps == PostsWith(Sep)
        IN  \A k \in 1..Len(songs) :
              /\ k <= Len(ps)
              /\ IsStripOf(songs[k].title, BracketCut(RightOf(ps[k], Sep)))
              /\ BracketFree(songs[k].title)
              /\ Trimmed(songs[k].title)

\* a parsed title whose remainder is cut at a "(" and leaves blanks to trim
\* around a title that is not empty
C2_Witness ==
    /\ Parsed
    /\ Len(posts) = 1
    /\ Len(songs) = 1
    /\ LET r == RightOf(posts[1], Sep)
       IN  /\ \E i \in 1..Len(r) : r[i] = "("
           /\ BracketCut(r) # r
           /\ ~Trimmed(BracketCut(r))
           /\ songs[1].title # <<>>

\* C3 as stated: the query of every song is its stored artist, a blank, its stored
\* title; both fields are trimmed, and the title holds none of the post's "[" or
\* "(" annotations.
C3_QueryIsArtistBlankTitle ==
    Parsed =>
        \A k \in 1..Len(songs) :
            /\ songs[k].query = songs[k].artist \o <<" ">> \o songs[k].title
            /\ Trimmed(songs[k].artist) /\ Trimmed(songs[k].title)
            /\ BracketFree(songs[k].title)

----------------------------------------------------------------------------
(* Vocabulary for the claims about the run *)

CallsOf(op) == SelectSeq(calls, LAMBDA c : c.op = op)

Positions(op) == {i \in 1..Len(calls) : calls[i].op = op}

LastCall == calls[Len(calls)]

AfterSearchLoop ==
    pc \in {"add_tracks", "cover_feed", "download", "open", "encode85", "encode70",
            "shrink", "upload", "complete"}

CeilDiv(n, d) == (n + d - 1) \div d

\* the identifiers at indices [100 (k-1), min(100 k, n)), k counted from 1
ExpectedBatch(k) ==
    [j \in 1..Min2(BatchSize, Len(track_ids) - BatchSize * (k - 1)) |->
        track_ids[BatchSize * (k - 1) + j]]

RECURSIVE Flatten(_)
Flatten(cs) == IF cs = <<>> THEN <<>> ELSE Head(cs).arg \o Flatten(Tail(cs))

\* C4: the insertion issues ceil(n/100) addTracks calls in index order, call k
\* carrying exactly the identifiers of its hundred, none more than 100 items; the
\* batches concatenated are the found tracks, nothing reordered, left out or twice.
C4_BatchesCoverTracksInOrder ==
    LET adds == CallsOf("addTracks")
    IN  /\ Len(adds) <= CeilDiv(Len(track_ids), BatchSize)
        /\ \A k \in 1..Len(adds) :
             /\ adds[k].arg = ExpectedBatch(k)
             /\ Len(adds[k].arg) \in 1..BatchSize
        /\ pc = "cover_feed" =>
             /\ Len(adds) = CeilDiv(Len(track_ids), BatchSize)
             /\ Flatten(adds) = track_ids
             /\ playlist_tracks = track_ids

\* 250 found tracks were inserted in batches of 100, 100 and 50
C4_Witness ==
    /\ pc = "cover_feed"
    /\ Len(track_ids) = 250
    /\ LET adds == CallsOf("addTracks")
       IN  /\ Len(adds) = 3
           /\ Len(adds[1].arg) = 100 /\ Len(adds[2].arg) = 100 /\ Len(adds[3].arg) = 50

\* the k-th smallest element of a set of numbers
Nth(S, k) == CHOOSE x \in S : Cardinality({y \in S : y <= x}) = k

\* C5: every song is searched once, with limit 1, in order; the found list is the
\* answered identifiers and the not-found list the missed songs, both in song
\* order, together as many as the songs; a miss never ends the run, and the found
\* tracks are inserted.
C5_ResolutionPartitionsSongs ==
    LET searches == CallsOf("search")
        hits     == {k \in 1..Len(searches) : searches[k].reply > NoItem}
        misses   == {k \in 1..Len(searches) : searches[k].reply = NoItem}
    IN  /\ Len(searches) <= Len(songs)
        /\ \A k \in 1..Len(searches) :
             searches[k].arg = [q |-> songs[k].query, limit |-> 1]
        /\ Len(track_ids) = Cardinality(hits)
        /\ \A j \in 1..Len(track_ids) : track_ids[j] = searches[Nth(hits, j)].reply
        /\ Len(not_found) = Cardinality(misses)
        /\ \A j \in 1..Len(not_found) : not_found[j] = songs[Nth(misses, j)]
        /\ AfterSearchLoop =>
             /\ Len(searches) = Len(songs)
             /\ Len(track_ids) + Len(not_found) = Len(songs)
        /\ (pc = "crashed" /\ calls # <<>> /\ LastCall.op = "search") =>
             LastCall.reply = Raised
        /\ pc = "cover_feed" => playlist_tracks = track_ids

\* a run whose first search missed and whose later search hit, the hit inserted
C5_Witness ==
    /\ pc = "cover_feed"
    /\ Len(songs) >= 2
    /\ CallsOf("search")[1].reply = NoItem
    /\ not_found # <<>>
    /\ track_ids # <<>>
    /\ playlist_tracks = track_ids

PlaylistOps == {"createPlaylist", "search", "addTracks", "setCoverImage"}

\* the client id, the client secret or the redirect target is absent
SettingMissing == ~config.id \/ ~config.secret \/ ~config.redirect

\* C6: a run that meets an abort guard (a setting missing, no posts from the
\* primary feed, no song parsed) stops normally without any createPlaylist,
\* search, addTracks or setCoverImage call; with a setting missing it issues no
\* network call at all.
C6_AbortGuardsIssueNoPlaylistCall ==
    /\ SettingMissing => (pc \in {"start", "aborted"} /\ calls = <<>>)
    /\ (posts = <<>> /\ calls # <<>>) =>
          \/ pc = "aborted"
          \/ pc = "crashed" /\ LastCall.reply = Raised /\ Len(calls) = 1
    /\ songs = <<>> =>
          \/ pc \in {"start", "fetch_posts", "parse", "aborted"}
          \/ pc = "crashed" /\ LastCall.reply = Raised /\ Len(calls) = 1
    /\ pc = "aborted" =>
          /\ \A i \in 1..Len(calls) : calls[i].op \notin PlaylistOps
          /\ playlists = 0
          /\ playlist_tracks = <<>>
          /\ ~cover_set

\* the feed returned posts, none of them parsed, and the run stopped
C6_Witness ==
    /\ pc = "aborted"
    /\ ~SettingMissing
    /\ posts # <<>>
    /\ songs = <<>>

CoverStarted ==
    \E i \in 1..Len(calls) : calls[i].op = "fetchTopPosts" /\ calls[i].arg = "earthporn"

\* C7 as stated: once the playlist is created and the tracks inserted, a failure of
\* the cover step (feed without a post, download refused, image that does not
\* decode, upload refused) is caught: the run does not raise, and the playlist
\* keeps its tracks.  (A transport exception of requests.get is left aside.)
C7_CoverFailureIsCaught ==
    (CoverStarted /\ LastCall.reply # Raised) =>
        /\ pc # "crashed"
        /\ playlists = 1
        /\ playlist_tracks = track_ids

Oversized(size) == size[1] > max_size /\ size[2] > max_size

\* C8 as stated: for an oversized source the buffer handed back is at most
\* 200 KiB, after at most two escalation steps.
C8_ReturnedBufferUnderCeiling ==
    (pc = "upload" /\ Oversized(source)) =>
        /\ encodes[Len(encodes)].bytes <= CeilingBytes
        /\ Len(encodes) <= 3

\* C8 amended: the first save is at quality 85; a second save happens only when
\* the first is over 200 KiB, at quality 70 on the same image; a third only when
\* the second is still over, at quality 70 on the image shrunk to 0.75 (floored);
\* there is no fourth.  The buffer handed back is the last save: at most 200 KiB
\* when it is the first or second, of whatever size when it is the third.
C8_TwoEscalationsThenAccept ==
    /\ Len(encodes) <= 3
    /\ Len(encodes) >= 1 => encodes[1].quality = Quality85
    /\ Len(encodes) >= 2 =>
         /\ encodes[1].bytes > CeilingBytes
         /\ encodes[2].quality = Quality70
         /\ encodes[2].width = encodes[1].width
         /\ encodes[2].height = encodes[1].height
    /\ Len(encodes) >= 3 =>
         /\ encodes[2].bytes > CeilingBytes
         /\ encodes[3].quality = Quality70
         /\ encodes[3].width = (3 * encodes[2].width) \div 4
         /\ encodes[3].height = (3 * encodes[2].height) \div 4
    /\ pc = "upload" =>
         /\ encodes # <<>>
         /\ Len(encodes) < 3 => encodes[Len(encodes)].bytes <= CeilingBytes

\* an oversized source went through both escalations and the third save, still
\* over the ceiling, is what the function returns
C8_Witness ==
    /\ pc = "upload"
    /\ Oversized(source)
    /\ Len(encodes) = 3
    /\ encodes[3].bytes > CeilingBytes

C10_CallOrder ==
    /\ Cardinality(Positions("createPlaylist")) <= 1
    /\ (AfterSearchLoop \/ pc = "search") =>
          Cardinality(Positions("createPlaylist")) = 1 /\ playlists = 1
    /\ \A i \in Positions("search") :
          \E c \in Positions("createPlaylist") : c < i
    /\ \A i \in Positions("search"), j \in Positions("addTracks") : i < j
    /\ \A i \in Positions("addTracks"), j \in Positions("setCoverImage") : i < j
    /\ \A i \in Positions("search"), j \in Positions("setCoverImage") : i < j
    /\ (pc = "complete" /\ track_ids = <<>>) =>
          /\ playlists = 1
          /\ Positions("addTracks") = {}
          /\ playlist_tracks = <<>>
    /\ (pc = "crashed" /\ calls # <<>> /\ LastCall.op = "search") =>
          /\ playlists = 1
          /\ playlist_tracks = <<>>
          /\ Positions("addTracks") = {}

\* a complete run: two songs or more, one missed, the others inserted, the cover
\* uploaded
C10_Witness ==
    /\ pc = "complete"
    /\ Len(songs) >= 2
    /\ not_found # <<>>
    /\ playlist_tracks # <<>>
    /\ cover_set
    /\ Positions("setCoverImage") # {}

====
